---- MODULE Spec2Model ----
(***************************************************************************)
(* Model of the print-calibration pattern generator, src/calibration.py.   *)
(*                                                                         *)
(* The script is one module-level loop over the PaperSize enumeration.     *)
(* Each iteration loads a blank page template, orients it to landscape,    *)
(* plans a centred grid of square markers, draws the grid on a front and a *)
(* back copy of the template and saves both as one two-page PDF.           *)
(*                                                                         *)
(* Coordinates.  start_x and start_y are Python floats that are always a   *)
(* multiple of 0.5 (the .5 literal of lines 57, 61, 65, 69 times an        *)
(* integer), hence exactly representable.  The model keeps every pixel     *)
(* coordinate DOUBLED, as an integer: a name ending in 2 holds twice the   *)
(* value of the Python variable of the same name (start_x2 = 2 * start_x). *)
(* Counts, indices and page dimensions are plain integers.                 *)
(***************************************************************************)
EXTENDS Integers, Sequences, FiniteSets, TLC

\* ------------------------------------------------------------------ bounds
\* Number of members of the PaperSize enumeration that the model iterates.
NumPaperSizes == 2

\* Number of times the script is run, one run after the other.
MaxRuns == 2

\* The largest marker count the centring formula is evaluated for.
MaxCount == 6

\* Pixel dimensions a template image can have.  floor(d / 100) - 6 is
\* -2, -1, 0, 1, 2, 3, 3, 4 for these values; 599 and 901 are odd dimensions.
TemplateDims == {450, 599, 650, 700, 800, 900, 901, 1000}

\* Templates of the runs that are repeated: each gives a valid grid
\* (4 x 1, 3 x 1 from a portrait template, 3 x 2 on an odd width).
TwiceTemplates == {<<1000, 700>>, <<700, 901>>, <<901, 800>>}

\* ------------------------------------------------------- program constants
test_size == 25
test_distance == 75
MarginSlots == 6
LabelInset == 180
CoordLabelDrop == 30

\* math.floor(test_size / 2)
test_half_size == test_size \div 2

\* ------------------------------------------------------------ enumeration
\* The members of PaperSize, in definition order (utilities.py).
PaperSize == [i \in 1..NumPaperSizes |-> "size" \o ToString(i)]

\* f'{paper_size.value}_blank.jpg' under asset_directory
base_path(value) == "assets/" \o value \o "_blank.jpg"

\* Variant of pdf_path: the paper size is left out of the file name.
pdf_path_fixed(value) == "calibration/calibration.pdf"

\* os.path.join("calibration", f"{paper_size.value}_calibration.pdf")
pdf_path(value) == "calibration/" \o value \o "_calibration.pdf"

\* os.path.join(asset_directory, 'arial.ttf')
FontPath == "assets/arial.ttf"

\* The files the script reads.
AssetPaths == {base_path(PaperSize[i]) : i \in 1..NumPaperSizes} \cup {FontPath}

\* What is known of an asset file: nothing yet, that it is missing, or that
\* it is there (a template with its pixel dimensions).
UnknownAsset == [state |-> "unknown", width |-> 0, height |-> 0]
MissingAsset == [state |-> "missing", width |-> 0, height |-> 0]
PresentAsset(w, h) == [state |-> "present", width |-> w, height |-> h]

\* The enumeration in definition order, and every sequence of distinct
\* members an enumeration could consist of.
FullOrder == [i \in 1..NumPaperSizes |-> i]
Enumerations ==
    {o \in UNION {[1..n -> 1..NumPaperSizes] : n \in 1..NumPaperSizes} :
        \A i, j \in DOMAIN o : i # j => o[i] # o[j]}

\* Every path the model's file system knows: the outputs and the templates.
AllPaths == {pdf_path(PaperSize[i]) : i \in 1..NumPaperSizes}
              \cup {base_path(PaperSize[i]) : i \in 1..NumPaperSizes}

\* ------------------------------------------------------------ grid planner
\* Variant of matrix_size: the margin reservation is left out.
matrix_size_nomargin(dimension) == dimension \div (test_size + test_distance)

\* Variant of matrix_size: one slot reserved for the margins, not six.
matrix_size_smallmargin(dimension) ==
    (dimension \div (test_size + test_distance)) - 1

\* math.floor(dimension / (test_size + test_distance)) - 6
matrix_size(dimension) == (dimension \div (test_size + test_distance)) - MarginSlots

\* Variant of matrix_half_size: rounds the half up instead of down.
matrix_half_size_ceil(size) == (size + 1) \div 2

\* math.floor(matrix_size / 2); floors toward minus infinity as Python does
matrix_half_size(size) == size \div 2

\* The test of lines 56 and 64: matrix_size % 2 > 0.  Python's % takes the
\* sign of the divisor, so -1 % 2 = 1, exactly as % of Integers.
IsOddBranch(size) == size % 2 > 0

\* The test of lines 59 and 67, reached only on the else branch.
RaisesMatrixSize(size) == ~IsOddBranch(size) /\ size <= 0

\* Variant of start2: the two parity branches exchanged.
start2_swapped(dimension, size) ==
    LET half == matrix_half_size(size)
        page_center == dimension \div 2
    IN  IF IsOddBranch(size)
        THEN 2 * page_center - (2 * half - 1) * test_distance - 2 * half * test_size
        ELSE 2 * page_center - 2 * half * test_distance - (2 * half + 1) * test_size

\* Variant of start2: the even branch without its half-spacing correction.
start2_nohalf(dimension, size) ==
    LET half == matrix_half_size(size)
        page_center == dimension \div 2
    IN  IF IsOddBranch(size)
        THEN 2 * page_center - 2 * half * test_distance - (2 * half + 1) * test_size
        ELSE 2 * page_center - 2 * half * test_distance - 2 * half * test_size

\* Variant of start2: the odd branch without the centre marker's half size.
start2_nomarkerhalf(dimension, size) ==
    LET half == matrix_half_size(size)
        page_center == dimension \div 2
    IN  IF IsOddBranch(size)
        THEN 2 * page_center - 2 * half * test_distance - 2 * half * test_size
        ELSE 2 * page_center - (2 * half - 1) * test_distance - 2 * half * test_size

\* Variant of start2: the page centre rounded up instead of down.
start2_ceilcenter(dimension, size) ==
    LET half == matrix_half_size(size)
        page_center == (dimension + 1) \div 2
    IN  IF IsOddBranch(size)
        THEN 2 * page_center - 2 * half * test_distance - (2 * half + 1) * test_size
        ELSE 2 * page_center - (2 * half - 1) * test_distance - 2 * half * test_size

\* Twice the start coordinate of lines 57/61 (65/69).
start2(dimension, size) ==
    LET half == matrix_half_size(size)
        page_center == dimension \div 2
    IN  IF IsOddBranch(size)
        THEN 2 * page_center - 2 * half * test_distance - (2 * half + 1) * test_size
        ELSE 2 * page_center - (2 * half - 1) * test_distance - 2 * half * test_size

\* ---------------------------------------------------------------- errors
NoError == [exc |-> "none", msg |-> ""]

\* raise Exception(f'matrix_size must be greater than 0; received: {n}')
MatrixSizeError(n) ==
    [exc |-> "Exception",
     msg |-> "matrix_size must be greater than 0; received: " \o ToString(n)]

\* Image.open / ImageFont.truetype on a missing or corrupt asset.
AssetError(path) == [exc |-> "FileNotFoundError", msg |-> path]

\* Image.save into a missing directory or onto an unwritable file.
SaveError(path) == [exc |-> "OSError", msg |-> path]

\* ----------------------------------------------------------------- state
VARIABLES
    pc,                 \* position of the script
    paper_index,        \* position of paper_size in the enumeration
    print_width, print_height,
    front_image, back_image,
    matrix_size_x, matrix_half_size_x, matrix_size_y, matrix_half_size_y,
    start_x2, start_y2,
    x_index, y_index,
    card_list,
    files,              \* path -> document, or NoFile
    writes,             \* path -> number of times the path was written
    dir_exists,         \* the calibration/ directory exists; when FALSE it
                        \* is merely absent (os.makedirs would create it)
    error,              \* the exception that ended the run, or NoError
    assets,             \* asset path -> what the file on disk is
    order,              \* the members of PaperSize this run iterates over
    run,                \* number of the current run of the script
    first_files         \* the file system as the first run left it

vars == <<pc, paper_index, print_width, print_height, front_image, back_image,
          matrix_size_x, matrix_half_size_x, matrix_size_y, matrix_half_size_y,
          start_x2, start_y2, x_index, y_index, card_list, files, writes,
          dir_exists, error, assets, order, run, first_files>>

runVars == <<order, run, first_files>>

gridVars == <<matrix_size_x, matrix_half_size_x, matrix_size_y,
              matrix_half_size_y, start_x2, start_y2>>

NoFile == [pages |-> <<>>]
NoImage == [width |-> 0, height |-> 0, texts |-> {}, rects |-> {}]

paper_size == PaperSize[order[paper_index]]

\* The interpreter's state when the script starts.
ScriptStart ==
    /\ pc = "load"
    /\ paper_index = 1
    /\ print_width = 0 /\ print_height = 0
    /\ front_image = NoImage /\ back_image = NoImage
    /\ matrix_size_x = 0 /\ matrix_half_size_x = 0
    /\ matrix_size_y = 0 /\ matrix_half_size_y = 0
    /\ start_x2 = 0 /\ start_y2 = 0
    /\ x_index = 0 /\ y_index = 0
    /\ card_list = <<>>
    /\ writes = [p \in AllPaths |-> 0]
    /\ error = NoError

\* One run over the whole enumeration, nothing written yet, the assets
\* whatever they turn out to be when opened.
Init ==
    /\ ScriptStart
    /\ files = [p \in AllPaths |-> NoFile]
    /\ dir_exists \in BOOLEAN
    /\ assets = [p \in AssetPaths |-> UnknownAsset]
    /\ order = FullOrder
    /\ run = 1
    /\ first_files = files

\* A document left at an output path by something else than this script.
StaleFile == [pages |-> <<NoImage>>]

\* Repeated runs: the assets are all there, and the output paths may hold
\* files from before.
InitTwice ==
    /\ ScriptStart
    /\ \E stale \in BOOLEAN :
          files = [p \in AllPaths |->
                     IF stale /\ p \in {pdf_path(PaperSize[i]) : i \in 1..NumPaperSizes}
                     THEN StaleFile ELSE NoFile]
    /\ dir_exists \in BOOLEAN
    /\ assets \in {a \in [AssetPaths -> {PresentAsset(t[1], t[2]) : t \in TwiceTemplates}
                                          \cup {PresentAsset(0, 0)}] :
                      /\ a[FontPath] = PresentAsset(0, 0)
                      /\ \A p \in AssetPaths \ {FontPath} : a[p] # PresentAsset(0, 0)}
    /\ order = FullOrder
    /\ run = 1
    /\ first_files = files

\* --------------------------------------------------------- error exit
\* Variant of Raise: the failure is recorded and the loop goes on with the
\* next paper size.
Raise_isolated(e) ==
    /\ error' = e
    /\ IF paper_index < Len(order)
       THEN /\ paper_index' = paper_index + 1
            /\ pc' = "load"
       ELSE /\ paper_index' = paper_index
            /\ pc' = "failed"

\* An exception nobody catches: the module-level loop is left and the
\* interpreter exits; no statement of the script runs afterwards.
Raise(e) ==
    /\ error' = e
    /\ pc' = "failed"
    /\ paper_index' = paper_index

\* After the save of one paper size the for statement of line 11 takes the
\* next member, or ends the script.
NextPaperSize ==
    IF paper_index < Len(order)
    THEN /\ paper_index' = paper_index + 1
         /\ pc' = "load"
    ELSE /\ paper_index' = paper_index
         /\ pc' = "done"

\* ------------------------------------------------------------ lines 12-28
\* Variant of OrientedWidth: the template's width is taken as it is.
OrientedWidth_asis(w, h) == w

\* Landscape orientation: im.rotate(90, expand=True) swaps the dimensions.
OrientedWidth(w, h) == IF h > w THEN h ELSE w
OrientedHeight(w, h) == IF h > w THEN w ELSE h

\* What opening an asset can find: a file already opened before is what it
\* was; one not opened yet is missing or there, a template with any of the
\* dimensions.
TemplateFound(path) ==
    IF assets[path] = UnknownAsset
    THEN {MissingAsset} \cup
         {PresentAsset(w, h) : w \in TemplateDims, h \in TemplateDims}
    ELSE {assets[path]}
FontFound ==
    IF assets[FontPath] = UnknownAsset
    THEN {MissingAsset, PresentAsset(0, 0)}
    ELSE {assets[FontPath]}

\* Image.open and the two ImageFont.truetype calls, then the orientation.
\* The template's dimensions are the input; a missing template or font
\* raises before any variable of the iteration is assigned.
LoadAssets ==
    /\ pc = "load"
    /\ \E im \in TemplateFound(base_path(paper_size)), font \in FontFound :
          IF im = MissingAsset
          THEN /\ Raise(AssetError(base_path(paper_size)))
               /\ assets' = [assets EXCEPT ![base_path(paper_size)] = im]
               /\ UNCHANGED <<print_width, print_height>>
          ELSE /\ assets' = [assets EXCEPT ![base_path(paper_size)] = im,
                                           ![FontPath] = font]
               /\ IF font = MissingAsset
                  THEN /\ Raise(AssetError(FontPath))
                       /\ UNCHANGED <<print_width, print_height>>
                  ELSE /\ print_width' = OrientedWidth(im.width, im.height)
                       /\ print_height' = OrientedHeight(im.width, im.height)
                       /\ pc' = "pages"
                       /\ UNCHANGED <<paper_index, error>>
    /\ UNCHANGED <<front_image, back_image, gridVars, x_index, y_index,
                   card_list, files, writes, dir_exists, runVars>>

\* ------------------------------------------------------------ lines 30-38
\* Variant of LabelledPage: the label carries the number of the run, as a
\* time stamp would.
LabelledPage_stamped(text) ==
    [width |-> print_width, height |-> print_height,
     texts |-> {[text |-> text \o ToString(run),
                 x2 |-> 2 * (print_width - LabelInset),
                 y2 |-> 2 * (print_height - LabelInset),
                 fill |-> "black", anchor |-> "ra"]},
     rects |-> {}]

\* Variant of LabelledPage: the page is not a fresh copy of the template
\* but keeps the squares of the page drawn before it.
LabelledPage_stale(text) ==
    [width |-> print_width, height |-> print_height,
     texts |-> {[text |-> text,
                 x2 |-> 2 * (print_width - LabelInset),
                 y2 |-> 2 * (print_height - LabelInset),
                 fill |-> "black", anchor |-> "ra"]},
     rects |-> front_image.rects]

\* A copy of the oriented template carrying one corner label.
LabelledPage(text) ==
    [width |-> print_width, height |-> print_height,
     texts |-> {[text |-> text,
                 x2 |-> 2 * (print_width - LabelInset),
                 y2 |-> 2 * (print_height - LabelInset),
                 fill |-> "black", anchor |-> "ra"]},
     rects |-> {}]

CreatePages ==
    /\ pc = "pages"
    /\ front_image' = LabelledPage("front")
    /\ back_image' = LabelledPage("back")
    /\ pc' = "grid"
    /\ UNCHANGED <<paper_index, print_width, print_height, gridVars, x_index,
                   y_index, card_list, files, writes, dir_exists, error,
                   assets, runVars>>

\* ------------------------------------------------------------ lines 41-69
\* Counts and halves of both axes are assigned first (47-51); then start_x
\* with its check, then start_y with its check.
ComputeGrid ==
    /\ pc = "grid"
    /\ matrix_size_x' = matrix_size(print_width)
    /\ matrix_half_size_x' = matrix_half_size(matrix_size_x')
    /\ matrix_size_y' = matrix_size(print_height)
    /\ matrix_half_size_y' = matrix_half_size(matrix_size_y')
    /\ IF RaisesMatrixSize(matrix_size_x')
       THEN /\ start_x2' = 0
            /\ start_y2' = start_y2
            /\ Raise(MatrixSizeError(matrix_size_x'))
       ELSE /\ start_x2' = start2(print_width, matrix_size_x')
            /\ IF RaisesMatrixSize(matrix_size_y')
               THEN /\ start_y2' = 0
                    /\ Raise(MatrixSizeError(matrix_size_y'))
               ELSE /\ start_y2' = start2(print_height, matrix_size_y')
                    /\ pc' = "render"
                    /\ UNCHANGED <<paper_index, error>>
    /\ x_index' = 0
    /\ y_index' = 0
    /\ UNCHANGED <<print_width, print_height, front_image, back_image,
                   card_list, files, writes, dir_exists, assets, runVars>>

\* ----------------------------------------------------------- lines 72-103
\* Variant of offset: the marker's own size is left out of the pitch.
offset_nosize(index) == index * test_distance

\* offset_x, offset_y of lines 75-76
offset(index) == index * (test_distance + test_size)

\* Variant of front_element2: the indices counted from 1.
front_element2_from1(start, index) == start + 2 * offset(index + 1)

\* front_element_x (doubled), lines 79-80
front_element2(start, index) == start + 2 * offset(index)

\* Variant of back_element2: a constant one-pixel shift.
back_element2_const(start, index, half) == front_element2(start, index) + 2

\* Variant of back_element2: two pixels of shift per index step.
back_element2_double(start, index, half) ==
    front_element2(start, index) + 4 * (index - half)

\* Variant of back_element2: the shift is the unsigned index distance.
back_element2_abs(start, index, half) ==
    front_element2(start, index)
        + 2 * (IF index < half THEN half - index ELSE index - half)

\* back_element_x (doubled), lines 93-94
back_element2(start, index, half) == front_element2(start, index) + 2 * (index - half)

\* Variant of Fill: only the single centre marker is highlighted.
Fill_and(xi, yi) ==
    IF xi = matrix_half_size_x /\ yi = matrix_half_size_y THEN "blue" ELSE "black"

\* Variant of Fill: the first column and first row are highlighted.
Fill_edge(xi, yi) ==
    IF xi = 0 \/ yi = 0 THEN "blue" ELSE "black"

\* lines 84-86
Fill(xi, yi) ==
    IF xi = matrix_half_size_x \/ yi = matrix_half_size_y THEN "blue" ELSE "black"

\* The square handed to ImageDraw.rectangle: top-left corner and side.
Square(xi, yi, x2, y2) ==
    [col |-> xi, row |-> yi, x2 |-> x2, y2 |-> y2,
     side |-> test_size, fill |-> Fill(xi, yi)]

\* Variant of CoordLabel: the text holds the raw grid indices.
CoordLabel_index(xi, yi, bx2, by2) ==
    [text |-> "(" \o ToString(xi) \o ", " \o ToString(yi) \o ")",
     x2 |-> bx2 + 2 * test_half_size,
     y2 |-> by2 + 2 * test_half_size + 2 * CoordLabelDrop,
     fill |-> "red", anchor |-> "mm"]

\* The coordinate label of lines 101-103.
CoordLabel(xi, yi, bx2, by2) ==
    [text |-> "(" \o ToString(xi - matrix_half_size_x) \o ", "
                  \o ToString(yi - matrix_half_size_y) \o ")",
     x2 |-> bx2 + 2 * test_half_size,
     y2 |-> by2 + 2 * test_half_size + 2 * CoordLabelDrop,
     fill |-> "red", anchor |-> "mm"]

\* One pass through the body of the inner loop.
DrawMarker ==
    /\ pc = "render"
    /\ x_index < matrix_size_x
    /\ y_index < matrix_size_y
    /\ LET fx2 == front_element2(start_x2, x_index)
           fy2 == front_element2(start_y2, y_index)
           bx2 == back_element2(start_x2, x_index, matrix_half_size_x)
           by2 == back_element2(start_y2, y_index, matrix_half_size_y)
       IN  /\ front_image' = [front_image EXCEPT
                 !.rects = @ \cup {Square(x_index, y_index, fx2, fy2)}]
           /\ back_image' = [back_image EXCEPT
                 !.rects = @ \cup {Square(x_index, y_index, bx2, by2)},
                 !.texts = @ \cup {CoordLabel(x_index, y_index, bx2, by2)}]
    /\ IF y_index + 1 < matrix_size_y
       THEN /\ y_index' = y_index + 1
            /\ x_index' = x_index
       ELSE /\ y_index' = 0
            /\ x_index' = x_index + 1
    /\ UNCHANGED <<pc, paper_index, print_width, print_height, gridVars,
                   card_list, files, writes, dir_exists, error, assets,
                   runVars>>

\* Variant of LoopsExhausted: the outer loop stops after its first column.
LoopsExhausted_early == x_index >= 1 \/ ~(x_index < matrix_size_x /\ y_index < matrix_size_y)

\* Variant of LoopsExhausted: an off-by-one that a full grid never meets.
LoopsExhausted_strict == x_index > matrix_size_x

\* Both range() loops are exhausted; range(n) is empty for n <= 0.
LoopsExhausted == ~(x_index < matrix_size_x /\ y_index < matrix_size_y)

\* ---------------------------------------------------------------- line 108
\* Variant of rotate180: a left-right mirror instead of a half turn.
rotate180_mirror(image) ==
    [width |-> image.width, height |-> image.height,
     texts |-> {[t EXCEPT !.x2 = 2 * image.width - t.x2] : t \in image.texts},
     rects |-> {[r EXCEPT !.x2 = 2 * image.width - r.x2 - 2 * r.side]
                : r \in image.rects}]

\* back_image.rotate(180): the page keeps its size and every drawn item
\* is point-reflected through the page centre.
rotate180(image) ==
    [width |-> image.width, height |-> image.height,
     texts |-> {[t EXCEPT !.x2 = 2 * image.width - t.x2,
                          !.y2 = 2 * image.height - t.y2] : t \in image.texts},
     rects |-> {[r EXCEPT !.x2 = 2 * image.width - r.x2 - 2 * r.side,
                          !.y2 = 2 * image.height - r.y2 - 2 * r.side]
                : r \in image.rects}]

Compose ==
    /\ pc = "render"
    /\ LoopsExhausted
    /\ card_list' = <<front_image, rotate180(back_image)>>
    /\ pc' = "save"
    /\ UNCHANGED <<paper_index, print_width, print_height, front_image,
                   back_image, gridVars, x_index, y_index, files, writes,
                   dir_exists, error, assets, runVars>>

\* ----------------------------------------------------------- lines 109-110
\* card_list[0].save(pdf_path, save_all=True, append_images=card_list[1:]).
\* The script never creates calibration/: the save raises when it is absent.
\* A save can also fail with the directory present (disk full, read-only).
\* Variant of SavedFile: the pages are appended to the file that is there.
SavedFile_append(old, pages) == [pages |-> old.pages \o pages]

\* The file at pdf_path after the save: opened for writing, hence emptied,
\* then the pages of card_list written.
SavedFile(old, pages) == [pages |-> pages]

Save ==
    /\ pc = "save"
    /\ \E io_ok \in BOOLEAN :
          IF dir_exists /\ io_ok
          THEN /\ files' = [files EXCEPT ![pdf_path(paper_size)] =
                               SavedFile(@, card_list)]
               /\ writes' = [writes EXCEPT ![pdf_path(paper_size)] = @ + 1]
               /\ NextPaperSize
               /\ error' = error
          ELSE /\ Raise(SaveError(pdf_path(paper_size)))
               /\ UNCHANGED <<files, writes>>
    /\ UNCHANGED <<print_width, print_height, front_image, back_image,
                   gridVars, x_index, y_index, card_list, dir_exists, assets,
                   runVars>>

\* ---------------------------------------------------------------- reruns
\* The script is started again after a run that completed: a new
\* interpreter, the same files on disk.  The enumeration may be any.
Rerun ==
    /\ pc = "done"
    /\ run < MaxRuns
    /\ run' = run + 1
    /\ order' \in Enumerations
    /\ first_files' = IF run = 1 THEN files ELSE first_files
    /\ pc' = "load"
    /\ paper_index' = 1
    /\ print_width' = 0 /\ print_height' = 0
    /\ front_image' = NoImage /\ back_image' = NoImage
    /\ matrix_size_x' = 0 /\ matrix_half_size_x' = 0
    /\ matrix_size_y' = 0 /\ matrix_half_size_y' = 0
    /\ start_x2' = 0 /\ start_y2' = 0
    /\ x_index' = 0 /\ y_index' = 0
    /\ card_list' = <<>>
    /\ writes' = [p \in AllPaths |-> 0]
    /\ error' = NoError
    /\ UNCHANGED <<files, dir_exists, assets>>

\* ------------------------------------------------------------------ system
Next ==
    \/ LoadAssets
    \/ CreatePages
    \/ ComputeGrid
    \/ DrawMarker
    \/ Compose
    \/ Save

Spec == Init /\ [][Next]_vars

NextTwice == Next \/ Rerun

SpecTwice == InitTwice /\ [][NextTwice]_vars

\* The interpreter runs the script statement after statement: a step that
\* can be taken is taken.
FairSpec == Spec /\ WF_vars(Next)

TypeOK ==
    /\ pc \in {"load", "pages", "grid", "render", "save", "done", "failed"}
    /\ paper_index \in 1..NumPaperSizes
    /\ (error = NoError) <=> (pc # "failed")

\* ================================================================ claims
\* The grid of the current paper size has been planned and not yet replaced.
GridPlanned == pc \in {"render", "save"}

PdfPaths == {pdf_path(PaperSize[i]) : i \in 1..NumPaperSizes}

\* The front square drawn for the same grid index as the back square b.
FrontOf(b) == CHOOSE f \in front_image.rects : f.col = b.col /\ f.row = b.row

\* C1: whenever a marker count is <= 0 on either axis (zero, negative even
\* or negative odd) the run fails; it never proceeds past grid planning with
\* a zero or empty marker grid.
C1_NonPositiveCountFails ==
    GridPlanned => (matrix_size_x > 0 /\ matrix_size_y > 0)

\* C2: when a count is <= 0 on either axis no output document is written
\* for that paper size: no step that changes the file system is taken with
\* such a grid.
C2_NoWriteForEmptyGrid ==
    [][(files' # files) => (matrix_size_x > 0 /\ matrix_size_y > 0)]_vars

\* C3: every back marker is drawn at the position of the front marker of
\* the same index, shifted by exactly (c - half_columns, r - half_rows)
\* whole pixels, each axis on its own.
C3_BackOffsetLinear ==
    \A b \in back_image.rects :
        /\ \E f \in front_image.rects : f.col = b.col /\ f.row = b.row
        /\ b.x2 - FrontOf(b).x2 = 2 * (b.col - matrix_half_size_x)
        /\ b.y2 - FrontOf(b).y2 = 2 * (b.row - matrix_half_size_y)

C3_Witness ==
    \E b \in back_image.rects :
        /\ b.col - matrix_half_size_x >= 1
        /\ b.row - matrix_half_size_y <= -1
        /\ b.x2 > FrontOf(b).x2
        /\ b.y2 < FrontOf(b).y2

\* C4: with columns > 0 and rows > 0 the centre column and centre row are
\* inside the grid; back markers on the centre column have x-offset 0, on
\* the centre row y-offset 0, and once the grid is drawn the marker at
\* (half_columns, half_rows) sits at one position on front and back.
C4_CenterCoincides ==
    (GridPlanned /\ matrix_size_x > 0 /\ matrix_size_y > 0) =>
        /\ matrix_half_size_x \in 0..(matrix_size_x - 1)
        /\ matrix_half_size_y \in 0..(matrix_size_y - 1)
        /\ \A b \in back_image.rects : \A f \in front_image.rects :
              (f.col = b.col /\ f.row = b.row) =>
                  /\ (b.col = matrix_half_size_x => b.x2 = f.x2)
                  /\ (b.row = matrix_half_size_y => b.y2 = f.y2)
        /\ (pc = "save") =>
              \E b \in back_image.rects : \E f \in front_image.rects :
                  /\ f.col = matrix_half_size_x /\ f.row = matrix_half_size_y
                  /\ b.col = f.col /\ b.row = f.row
                  /\ b.x2 = f.x2 /\ b.y2 = f.y2

C4_Witness ==
    /\ pc = "save"
    /\ matrix_size_x > 2 /\ matrix_size_y > 1
    /\ \E b \in back_image.rects :
          b.col = matrix_half_size_x /\ b.row = matrix_half_size_y

\* The start coordinate (doubled) the two centring rules give for a page
\* dimension and a count, written from the rules' own terms.
OddRule2(dimension, half) ==
    2 * (dimension \div 2) - 2 * half * 75 - (2 * half + 1) * 25
EvenRule2(dimension, half) ==
    2 * (dimension \div 2) - (2 * half - 1) * 75 - 2 * half * 25

\* C5: on each axis with count > 0, an odd count starts the grid at
\* page_center - half*spacing - (half + 0.5)*marker_size and an even count
\* at page_center - (half - 0.5)*spacing - half*marker_size; the rule used
\* on one axis depends on that axis's parity alone.
C5_StartByParity ==
    GridPlanned =>
        /\ matrix_size_x > 0 =>
              start_x2 = IF matrix_size_x % 2 = 1
                         THEN OddRule2(print_width, matrix_size_x \div 2)
                         ELSE EvenRule2(print_width, matrix_size_x \div 2)
        /\ matrix_size_y > 0 =>
              start_y2 = IF matrix_size_y % 2 = 1
                         THEN OddRule2(print_height, matrix_size_y \div 2)
                         ELSE EvenRule2(print_height, matrix_size_y \div 2)

\* Mixed parities, both ways round, are reached in two different runs; the
\* witness is the one with odd columns over even rows.
C5_Witness ==
    /\ GridPlanned
    /\ matrix_size_x > 0 /\ matrix_size_y > 0
    /\ matrix_size_x % 2 = 1 /\ matrix_size_y % 2 = 0

\* Doubled distance from the page edge to the first marker of an axis and
\* from the last marker to the opposite edge, read off the drawn squares.
LeadX2 == (CHOOSE f \in front_image.rects : f.col = 0).x2
TrailX2 ==
    LET last == CHOOSE f \in front_image.rects : f.col = matrix_size_x - 1
    IN  2 * print_width - (last.x2 + 2 * last.side)
LeadY2 == (CHOOSE f \in front_image.rects : f.row = 0).y2
TrailY2 ==
    LET last == CHOOSE f \in front_image.rects : f.row = matrix_size_y - 1
    IN  2 * print_height - (last.y2 + 2 * last.side)

Span(count) == count * 25 + (count - 1) * 75
Abs(n) == IF n < 0 THEN -n ELSE n

\* C6: once the grid is drawn, on each axis the margin before the first
\* marker plus the margin after the last one equals the page dimension
\* minus the grid's span, and the two margins differ by at most one marker
\* size.
C6_GridCentered ==
    (pc = "save" /\ matrix_size_x > 0 /\ matrix_size_y > 0) =>
        /\ LeadX2 + TrailX2 = 2 * (print_width - Span(matrix_size_x))
        /\ Abs(LeadX2 - TrailX2) <= 2 * 25
        /\ LeadY2 + TrailY2 = 2 * (print_height - Span(matrix_size_y))
        /\ Abs(LeadY2 - TrailY2) <= 2 * 25

C6_Witness ==
    /\ pc = "save"
    /\ matrix_size_x = 3 /\ matrix_size_y = 2
    /\ print_width % 2 = 1
    /\ TrailX2 - LeadX2 = 2

\* C7: a 1000 x 700 page has 4 columns (even) and 1 row (odd), start_x is
\* 337.5 by the even rule and start_y is 337.5 by the odd rule.
C7_ScenarioA ==
    (GridPlanned /\ print_width = 1000 /\ print_height = 700) =>
        /\ matrix_size_x = 4 /\ matrix_size_y = 1
        /\ start_x2 = 675 /\ start_x2 = EvenRule2(1000, 2)
        /\ start_y2 = 675 /\ start_y2 = OddRule2(700, 0)

C7_Witness ==
    /\ pc = "render"
    /\ print_width = 1000 /\ print_height = 700
    /\ Cardinality(front_image.rects) = 4

\* C8: after a run that completes without error every paper size has its
\* document at calibration/<papersize>_calibration.pdf, written exactly
\* once, with exactly two pages, the first the front surface and the second
\* the back surface; no other path is written.
C8_OneDocumentPerPaperSize ==
    (pc = "done") =>
        /\ \A i \in 1..NumPaperSizes :
              LET path == "calibration/" \o PaperSize[i] \o "_calibration.pdf"
              IN  /\ path \in DOMAIN files
                  /\ writes[path] = 1
                  /\ Len(files[path].pages) = 2
                  /\ \E t \in files[path].pages[1].texts : t.text = "front"
                  /\ \E t \in files[path].pages[2].texts : t.text = "back"
        /\ \A p \in DOMAIN files :
              (\A i \in 1..NumPaperSizes :
                  p # "calibration/" \o PaperSize[i] \o "_calibration.pdf")
              => (writes[p] = 0 /\ files[p] = NoFile)

C8_Witness ==
    /\ pc = "done"
    /\ error = NoError
    /\ \A p \in PdfPaths : writes[p] = 1

\* C9: a fatal error ends the run: from a state with an error no step is
\* taken (no later paper size is started, nothing is retried), the failing
\* paper size has no document, and exactly the paper sizes before it have
\* theirs.
C9_AbortOnFirstError ==
    /\ [](error # NoError =>
            /\ pc = "failed"
            /\ \A i \in 1..NumPaperSizes :
                  (i < paper_index) <=> (files[pdf_path(PaperSize[i])] # NoFile))
    /\ [][error = NoError /\ (error' # NoError => files' = files)]_vars

C9_Witness ==
    /\ error # NoError
    /\ paper_index > 1
    /\ files[pdf_path(PaperSize[1])] # NoFile

\* The index pairs of the squares drawn on a page.
DrawnIndices(page) == {<<r.col, r.row>> : r \in page.rects}

\* Every marker of the columns x rows grid of the page's dimensions.
GridIndices(page) ==
    (0..((page.width \div 100) - 6 - 1)) \X (0..((page.height \div 100) - 6 - 1))

\* C10: each path holds either no document or a complete one: two pages,
\* with every marker of the grid drawn on the front page and on the back
\* page; a partially rendered iteration never writes.
C10_NoPartialDocument ==
    \A p \in DOMAIN files :
        files[p] = NoFile \/
            /\ Len(files[p].pages) = 2
            /\ DrawnIndices(files[p].pages[1]) = GridIndices(files[p].pages[1])
            /\ DrawnIndices(files[p].pages[2]) = GridIndices(files[p].pages[2])

C10_Witness ==
    \E p \in DOMAIN files :
        /\ files[p] # NoFile
        /\ Cardinality(files[p].pages[1].rects) = 12
        /\ Cardinality(files[p].pages[2].rects) = 12

\* C12: page 2 of the composed document is the back surface turned by 180
\* degrees: same page size, and the back marker drawn at (x, y) lies at
\* (W - x - marker_size, H - y - marker_size); page 1 is the front surface
\* as drawn.
C12_BackPageRotated ==
    (pc = "save") =>
        /\ Len(card_list) = 2
        /\ card_list[1] = front_image
        /\ card_list[2].width = back_image.width
        /\ card_list[2].height = back_image.height
        /\ Cardinality(card_list[2].rects) = Cardinality(back_image.rects)
        /\ \A b \in back_image.rects : \E r \in card_list[2].rects :
              /\ r.col = b.col /\ r.row = b.row
              /\ r.side = b.side /\ r.fill = b.fill
              /\ r.x2 = 2 * print_width - b.x2 - 2 * 25
              /\ r.y2 = 2 * print_height - b.y2 - 2 * 25

C12_Witness ==
    /\ pc = "save"
    /\ Cardinality(back_image.rects) = 6
    /\ \E b \in back_image.rects : \E r \in card_list[2].rects :
          r.col = b.col /\ r.row = b.row /\ r.x2 # b.x2 /\ r.y2 # b.y2

\* C13: a marker is drawn in the accent colour exactly when its column is
\* half_columns or its row is half_rows, otherwise in the base colour, and
\* the back marker of an index has the colour of the front marker.
C13_CrosshairColor ==
    /\ \A f \in front_image.rects :
          /\ f.fill \in {"blue", "black"}
          /\ (f.fill = "blue") <=>
                (f.col = matrix_half_size_x \/ f.row = matrix_half_size_y)
    /\ \A b \in back_image.rects :
          /\ \E f \in front_image.rects : f.col = b.col /\ f.row = b.row
          /\ b.fill = FrontOf(b).fill

C13_Witness ==
    /\ \E f \in front_image.rects : f.fill = "black"
    /\ \E f \in front_image.rects :
          f.fill = "blue" /\ f.col = matrix_half_size_x /\ f.row # matrix_half_size_y
    /\ \E b \in back_image.rects :
          b.fill = "blue" /\ b.col # matrix_half_size_x /\ b.row = matrix_half_size_y

\* The text t occurs in the text s.
Contains(s, t) ==
    \E i \in 1..(Len(s) - Len(t) + 1) : SubSeq(s, i, i + Len(t) - 1) = t

\* The axis whose check raised: x is checked before y.
RaisingAxis == IF RaisesMatrixSize(matrix_size_x) THEN "x" ELSE "y"

\* Words by which a message could name an axis.
AxisWords(axis) ==
    IF axis = "x" THEN {"_x", " x", "horizontal", "width", "column"}
                  ELSE {"_y", " y", "vertical", "height", "row"}

\* C14: when the run fails on a marker count <= 0, the error names the
\* paper size being processed and the offending axis.
C14_ErrorNamesAxisAndPaperSize ==
    (pc = "failed" /\ error.exc = "Exception") =>
        /\ Contains(error.msg, paper_size)
        /\ \E w \in AxisWords(RaisingAxis) : Contains(error.msg, w)

\* C15: a save fails only when the directory cannot be created or the file
\* cannot be written; a calibration/ directory that is merely absent does
\* not make the run fail.
C15_AbsentDirectoryIsCreated ==
    (pc = "failed" /\ error.exc = "OSError") => dir_exists

\* The start (doubled) the centring rule of the other parity would give.
OtherRuleX2 ==
    IF matrix_size_x % 2 = 1
    THEN EvenRule2(print_width, matrix_half_size_x)
    ELSE OddRule2(print_width, matrix_half_size_x)
OtherRuleY2 ==
    IF matrix_size_y % 2 = 1
    THEN EvenRule2(print_height, matrix_half_size_y)
    ELSE OddRule2(print_height, matrix_half_size_y)

\* C19: the two centring rules are not interchangeable: on each axis the
\* start the script computed differs from what the rule of the other
\* parity gives for the same dimension and half by exactly
\* (marker_size + spacing) / 2 = 50 px.
C19_BranchesDiffer ==
    GridPlanned =>
        /\ matrix_size_x > 0 => Abs(start_x2 - OtherRuleX2) = 2 * 50
        /\ matrix_size_y > 0 => Abs(start_y2 - OtherRuleY2) = 2 * 50

C19_Witness ==
    /\ GridPlanned
    /\ matrix_size_x = 4 /\ matrix_size_y = 3
    /\ OtherRuleX2 = start_x2 - 100
    /\ OtherRuleY2 = start_y2 + 100

\* Four times the coordinate of the grid's centre on an axis, from the
\* first and last drawn front squares, and of the axis of a square.
GridCenterX4 ==
    (CHOOSE f \in front_image.rects : f.col = 0).x2
        + (CHOOSE f \in front_image.rects : f.col = matrix_size_x - 1).x2 + 2 * 25
GridCenterY4 ==
    (CHOOSE f \in front_image.rects : f.row = 0).y2
        + (CHOOSE f \in front_image.rects : f.row = matrix_size_y - 1).y2 + 2 * 25
AxisX4(f) == 2 * f.x2 + 2 * 25
AxisY4(f) == 2 * f.y2 + 2 * 25

\* C20, as claimed: for odd and even counts alike the grid's centre lies on
\* the axis of the accent column (index half_columns) and of the accent row
\* (index half_rows).
C20_CrosshairThroughCenter ==
    (pc = "save" /\ matrix_size_x > 0 /\ matrix_size_y > 0) =>
        \A f \in front_image.rects :
            /\ f.col = matrix_half_size_x => AxisX4(f) = GridCenterX4
            /\ f.row = matrix_half_size_y => AxisY4(f) = GridCenterY4

\* C20, amended: the accent column and row are those of index half; on an
\* axis with an odd count their axis passes through the grid's centre, on
\* an axis with an even count it lies exactly 50 px past the centre.
C20_CrosshairOffCenterWhenEven ==
    (pc = "save" /\ matrix_size_x > 0 /\ matrix_size_y > 0) =>
        \A f \in front_image.rects :
            /\ f.col = matrix_half_size_x =>
                  /\ f.fill = "blue"
                  /\ AxisX4(f) - GridCenterX4 =
                        IF matrix_size_x % 2 = 1 THEN 0 ELSE 4 * 50
            /\ f.row = matrix_half_size_y =>
                  /\ f.fill = "blue"
                  /\ AxisY4(f) - GridCenterY4 =
                        IF matrix_size_y % 2 = 1 THEN 0 ELSE 4 * 50

C20_Witness ==
    /\ pc = "save"
    /\ matrix_size_x = 3 /\ matrix_size_y = 2
    /\ \E f \in front_image.rects :
          /\ f.col = matrix_half_size_x /\ f.row = matrix_half_size_y
          /\ AxisX4(f) = GridCenterX4
          /\ AxisY4(f) = GridCenterY4 + 200

\* C18, as claimed: the stages are strictly separated: nothing is drawn on
\* either surface before the grid is computed and validated, and no front
\* marker is drawn once back-page drawing has begun.
C18_StrictStageOrder ==
    [][/\ (front_image' # front_image \/ back_image' # back_image)
              => pc = "render"
       /\ ~(front_image'.rects \subseteq front_image.rects)
              => (back_image.rects = {} /\ back_image'.rects = {})]_vars

\* The order in which the script's positions follow each other.
StageOrder ==
    {<<"load", "pages">>, <<"pages", "grid">>, <<"grid", "render">>,
     <<"render", "save">>, <<"save", "load">>, <<"save", "done">>,
     <<"load", "failed">>, <<"grid", "failed">>, <<"save", "failed">>}

\* C18, amended: the stages follow each other in the order load, page
\* creation with the corner labels, grid, marker rendering, compose, save;
\* markers are drawn only after the grid is computed and validated and
\* pairwise (front square and back square of an index in one pass), the
\* composition happens only once the loops have ended, and every run
\* reaches a terminal state.
C18_PipelineOrder ==
    /\ [][/\ pc' # pc => <<pc, pc'>> \in StageOrder
          /\ (~(front_image'.rects \subseteq front_image.rects)
                \/ ~(back_image'.rects \subseteq back_image.rects))
               => /\ pc = "render" /\ pc' = "render"
                  /\ ~(front_image'.rects \subseteq front_image.rects)
                  /\ ~(back_image'.rects \subseteq back_image.rects)
          /\ (pc = "render" /\ pc' = "save")
               => DrawnIndices(front_image) =
                     (0..(matrix_size_x - 1)) \X (0..(matrix_size_y - 1))]_vars
    /\ [](DrawnIndices(front_image) = DrawnIndices(back_image))
    /\ [](pc \in {"grid", "render", "save"} =>
             (\E t \in front_image.texts : t.text = "front")
             /\ (\E t \in back_image.texts : t.text = "back"))
    /\ <>(pc \in {"done", "failed"})

\* Front and back are both partly drawn: the rendering is interleaved.
C18_Witness ==
    /\ pc = "render"
    /\ ~LoopsExhausted
    /\ Cardinality(front_image.rects) = 2
    /\ Cardinality(back_image.rects) = 2

\* The document composed for the current paper size, and the paths written
\* so far in the current run.
ComposedDocument == [pages |-> card_list]
WrittenPaths == {p \in DOMAIN writes : writes[p] > 0}

\* C11: a run repeated with the same enumeration, templates and assets
\* composes for every paper size the document the first run wrote (same
\* geometry, squares, colours, offsets and label texts on both pages) and
\* writes the same set of paths.
C11_RunsAreDeterministic ==
    (run >= 2 /\ order = FullOrder) =>
        /\ pc = "save" =>
              ComposedDocument = first_files[pdf_path(paper_size)]
        /\ pc = "done" =>
              /\ WrittenPaths = {p \in DOMAIN first_files : first_files[p] # NoFile}
              /\ \A p \in DOMAIN files : files[p] = first_files[p]

C11_Witness ==
    /\ run = 2 /\ order = FullOrder
    /\ pc = "done"
    /\ \E p \in PdfPaths : Cardinality(files[p].pages[2].rects) = 6
    /\ \E p \in PdfPaths : Cardinality(files[p].pages[2].rects) = 4

\* C16: a save replaces whatever file is at the path by exactly the two
\* pages just composed and touches no other path, so that after a second
\* run in succession the file system is what the first run left.
C16_SaveOverwrites ==
    /\ [][(writes' # writes) =>
            /\ Len(card_list) = 2
            /\ files' = [files EXCEPT ![pdf_path(paper_size)] = ComposedDocument]]_vars
    /\ []((run = 2 /\ pc = "done" /\ order = FullOrder) => files = first_files)

\* The second run has overwritten every document of the first.
C16_Witness ==
    /\ run = 2 /\ pc = "done" /\ order = FullOrder
    /\ WrittenPaths = PdfPaths
    /\ \A p \in PdfPaths : files[p] # StaleFile /\ Len(files[p].pages) = 2

\* C17: the document of a paper size depends on its own template alone:
\* within a run two paper sizes with equal templates get equal documents,
\* whatever was processed before them, and a later run over any other
\* enumeration (other order, other members) writes for a paper size the
\* document the first run wrote for it.
C17_IterationsIndependent ==
    /\ [](\A i, j \in 1..NumPaperSizes :
            (/\ assets[base_path(PaperSize[i])] = assets[base_path(PaperSize[j])]
             /\ writes[pdf_path(PaperSize[i])] > 0
             /\ writes[pdf_path(PaperSize[j])] > 0)
            => files[pdf_path(PaperSize[i])] = files[pdf_path(PaperSize[j])])
    /\ [][(run >= 2 /\ writes' # writes) =>
            files'[pdf_path(paper_size)] = first_files[pdf_path(paper_size)]]_vars

\* A later run over the enumeration in another order has written a paper
\* size first that the first run wrote after another one.
C17_Witness ==
    /\ run = 2
    /\ order[1] # 1
    /\ paper_index = 1 /\ pc = "save"
    /\ assets[base_path(PaperSize[1])] # assets[base_path(PaperSize[order[1]])]
    /\ Cardinality(first_files[pdf_path(PaperSize[1])].pages[1].rects) >= 3
    /\ ComposedDocument = first_files[pdf_path(paper_size)]

\* The grid of the current paper size is completely drawn and not empty.
GridDrawn == pc = "save" /\ matrix_size_x > 0 /\ matrix_size_y > 0

\* Twice page_center = floor(dimension / 2) of each axis.
PageCenterX2 == 2 * (print_width \div 2)
PageCenterY2 == 2 * (print_height \div 2)

\* C21: on an axis with an odd count the front marker of index half has
\* its midpoint exactly at page_center; on an axis with an even count no
\* front marker covers page_center, which is exactly the midpoint of the
\* gap between the markers of indices half - 1 and half.
C21_CenterMarkerOrGap ==
    GridDrawn =>
        /\ \A f \in front_image.rects :
              /\ (matrix_size_x % 2 = 1 /\ f.col = matrix_size_x \div 2)
                    => f.x2 + f.side = PageCenterX2
              /\ (matrix_size_y % 2 = 1 /\ f.row = matrix_size_y \div 2)
                    => f.y2 + f.side = PageCenterY2
              /\ matrix_size_x % 2 = 0
                    => ~(f.x2 <= PageCenterX2 /\ PageCenterX2 <= f.x2 + 2 * f.side)
              /\ matrix_size_y % 2 = 0
                    => ~(f.y2 <= PageCenterY2 /\ PageCenterY2 <= f.y2 + 2 * f.side)
        /\ \A f, g \in front_image.rects :
              /\ (matrix_size_x % 2 = 0 /\ f.col = matrix_size_x \div 2 - 1
                    /\ g.col = matrix_size_x \div 2)
                    => (f.x2 + 2 * f.side) + g.x2 = 2 * PageCenterX2
              /\ (matrix_size_y % 2 = 0 /\ f.row = matrix_size_y \div 2 - 1
                    /\ g.row = matrix_size_y \div 2)
                    => (f.y2 + 2 * f.side) + g.y2 = 2 * PageCenterY2

\* Odd columns with a centre marker over even rows with a centre gap.
C21_Witness ==
    /\ GridDrawn
    /\ matrix_size_x = 3 /\ matrix_size_y = 2
    /\ \E f \in front_image.rects : f.col = 1 /\ f.x2 + f.side = PageCenterX2
    /\ \E f, g \in front_image.rects :
          f.row = 0 /\ g.row = 1 /\ (f.y2 + 2 * f.side) + g.y2 = 2 * PageCenterY2

\* The template of the current paper size as it is on disk.
Template == assets[base_path(paper_size)]
InIteration == pc \in {"pages", "grid", "render", "save"}

\* C22: the geometry used for planning is landscape: width >= height; a
\* template higher than wide has its dimensions exchanged, any other is
\* taken as it is, and the geometry stays what it is for the rest of the
\* iteration.
C22_LandscapeGeometry ==
    /\ [](InIteration =>
            /\ print_width >= print_height
            /\ Template.height > Template.width =>
                  (print_width = Template.height /\ print_height = Template.width)
            /\ Template.height <= Template.width =>
                  (print_width = Template.width /\ print_height = Template.height))
    /\ [][InIteration => (print_width' = print_width
                            /\ print_height' = print_height)]_vars

\* A portrait template, turned, with its grid drawn.
C22_Witness ==
    /\ pc = "save"
    /\ Template.height > Template.width
    /\ print_width = Template.height /\ print_width > print_height
    /\ front_image.width = print_width
    /\ Cardinality(front_image.rects) >= 4

\* C23: a non-empty grid has exactly columns x rows markers on each
\* surface, one for each index pair, and the front marker of (col, row) is a
\* square of side marker_size with its top-left corner at
\* (start_x + col * (marker_size + spacing), start_y + row * (marker_size + spacing)).
C23_OneMarkerPerIndex ==
    GridDrawn =>
        /\ Cardinality(front_image.rects) = matrix_size_x * matrix_size_y
        /\ Cardinality(back_image.rects) = matrix_size_x * matrix_size_y
        /\ DrawnIndices(front_image) =
              (0..(matrix_size_x - 1)) \X (0..(matrix_size_y - 1))
        /\ DrawnIndices(back_image) = DrawnIndices(front_image)
        /\ \A f \in front_image.rects :
              /\ f.side = 25
              /\ f.x2 = start_x2 + 2 * f.col * (25 + 75)
              /\ f.y2 = start_y2 + 2 * f.row * (25 + 75)

C23_Witness ==
    /\ GridDrawn
    /\ matrix_size_x = 4 /\ matrix_size_y = 3
    /\ Cardinality(front_image.rects) = 12
    /\ \E f \in front_image.rects :
          f.col = 3 /\ f.row = 2 /\ f.x2 = start_x2 + 600 /\ f.y2 = start_y2 + 400

\* The coordinate labels of a surface: the texts drawn with anchor "mm".
CoordLabels(page) == {t \in page.texts : t.anchor = "mm"}

\* The text of the signed tuple (i, j).
TupleText(i, j) == "(" \o ToString(i) \o ", " \o ToString(j) \o ")"

\* The labels anchored at the horizontal centre of the square b and 30 px
\* below its vertical centre.
LabelsUnder(b) ==
    {t \in CoordLabels(back_image) :
        /\ t.x2 = b.x2 + b.side
        /\ t.y2 = b.y2 + b.side + 2 * 30}

\* C24: every back marker has exactly one coordinate label, anchored at the
\* horizontal centre of the back marker and 30 px below its vertical
\* centre; its text is the tuple (col - half_columns, row - half_rows),
\* which is the offset in pixels between the back and the front marker;
\* the front surface carries no coordinate label.
C24_LabelUnderBackMarker ==
    GridDrawn =>
        /\ Cardinality(CoordLabels(back_image)) = Cardinality(back_image.rects)
        /\ \A b \in back_image.rects :
              /\ Cardinality(LabelsUnder(b)) = 1
              /\ \A t \in LabelsUnder(b) :
                    /\ t.text = TupleText(b.col - matrix_half_size_x,
                                          b.row - matrix_half_size_y)
                    /\ b.x2 - FrontOf(b).x2 = 2 * (b.col - matrix_half_size_x)
                    /\ b.y2 - FrontOf(b).y2 = 2 * (b.row - matrix_half_size_y)
        /\ CoordLabels(front_image) = {}

\* C25: both branches compute start = floor(dimension / 2) -
\* (count * marker_size + (count - 1) * spacing) / 2 for every dimension and
\* every count >= 1, and the margin after the drawn grid minus the margin
\* before it is dimension mod 2 on each axis, whatever the parity of the
\* count.
C25_BranchesAgree ==
    /\ \A d \in TemplateDims : \A n \in 1..MaxCount :
          start2(d, n) = 2 * (d \div 2) - Span(n)
    /\ GridDrawn =>
          /\ start_x2 = PageCenterX2 - Span(matrix_size_x)
          /\ start_y2 = PageCenterY2 - Span(matrix_size_y)
          /\ TrailX2 - LeadX2 = 2 * (print_width % 2)
          /\ TrailY2 - LeadY2 = 2 * (print_height % 2)

\* An odd count on an odd dimension over an even count on an even one.
C25_Witness ==
    /\ GridDrawn
    /\ matrix_size_x = 3 /\ print_width = 901 /\ TrailX2 - LeadX2 = 2
    /\ matrix_size_y = 2 /\ print_height = 800 /\ TrailY2 - LeadY2 = 0

\* The square r lies inside the page it is drawn on.
InsidePage(r, page) ==
    /\ 0 <= r.x2 /\ r.x2 + 2 * r.side <= 2 * page.width
    /\ 0 <= r.y2 /\ r.y2 + 2 * r.side <= 2 * page.height

\* C26: with both counts >= 1 every front and every back marker square,
\* shifted and rotated, lies inside the page, and the front grid keeps
\* at least 337 px to each page edge.
C26_MarkersInsidePage ==
    GridDrawn =>
        /\ \A f \in front_image.rects :
              /\ InsidePage(f, front_image)
              /\ f.x2 >= 2 * 337 /\ f.x2 + 2 * f.side <= 2 * (print_width - 337)
              /\ f.y2 >= 2 * 337 /\ f.y2 + 2 * f.side <= 2 * (print_height - 337)
        /\ \A b \in back_image.rects : InsidePage(b, back_image)
        /\ \A r \in card_list[2].rects : InsidePage(r, card_list[2])
        /\ LeadX2 >= 2 * 337 /\ TrailX2 >= 2 * 337
        /\ LeadY2 >= 2 * 337 /\ TrailY2 >= 2 * 337

\* The largest grid of the templates: 4 x 4 markers, 337.5 px from the edge.
C26_Witness ==
    /\ GridDrawn
    /\ matrix_size_x = 4 /\ matrix_size_y = 4
    /\ LeadX2 = 675 /\ TrailX2 = 675
    /\ \E b \in back_image.rects :
          b.col = 0 /\ b.x2 = LeadX2 - 4 /\ InsidePage(b, back_image)

\* Two squares drawn on the same page share no point.
Disjoint(r, q) ==
    \/ Abs(r.x2 - q.x2) > r.side + q.side
    \/ Abs(r.y2 - q.y2) > r.side + q.side

\* On every axis, markers of neighbouring indices are pitch px apart.
UniformPitch(rects, pitch) ==
    \A r, q \in rects :
        /\ (q.col = r.col + 1 /\ q.row = r.row)
              => (q.x2 - r.x2 = 2 * pitch /\ q.y2 = r.y2)
        /\ (q.row = r.row + 1 /\ q.col = r.col)
              => (q.y2 - r.y2 = 2 * pitch /\ q.x2 = r.x2)

NoOverlap(rects) ==
    \A r, q \in rects :
        (r.col # q.col \/ r.row # q.row) => Disjoint(r, q)

\* C27: no two markers of the same page overlap; the front markers are at
\* a pitch of 100 px and the back markers at a pitch of exactly 101 px on
\* each axis, on every surface and at every moment of the drawing.
C27_NoOverlap ==
    /\ UniformPitch(front_image.rects, 100)
    /\ UniformPitch(back_image.rects, 101)
    /\ NoOverlap(front_image.rects)
    /\ NoOverlap(back_image.rects)
    /\ pc = "save" =>
          /\ NoOverlap(card_list[2].rects)
          /\ \A r, q \in card_list[2].rects :
                (q.col = r.col + 1 /\ q.row = r.row) => r.x2 - q.x2 = 2 * 101

\* A 4 x 3 grid: neighbours in both directions on both surfaces.
C27_Witness ==
    /\ GridDrawn
    /\ matrix_size_x = 4 /\ matrix_size_y = 3
    /\ \E r, q \in back_image.rects :
          r.col = 2 /\ q.col = 3 /\ r.row = 1 /\ q.row = 1 /\ q.x2 - r.x2 = 202
    /\ \E r, q \in front_image.rects :
          r.col = 1 /\ q.col = 1 /\ r.row = 1 /\ q.row = 2 /\ q.y2 - r.y2 = 200

\* The labels an axis with count n carries: -floor(n/2) .. n - 1 - floor(n/2).
AxisLabels(n) == (0 - (n \div 2))..(n - 1 - (n \div 2))

\* The markers drawn on the back at the place they have on the front.
Unshifted ==
    {b \in back_image.rects :
        b.x2 = FrontOf(b).x2 /\ b.y2 = FrontOf(b).y2}

\* C28: in a non-empty grid exactly one back marker is labelled (0, 0) and
\* it is the only one drawn where its front marker is; the labels are the
\* tuples of -floor(n/2) .. n - 1 - floor(n/2) of each axis, each once.
C28_LabelRange ==
    GridDrawn =>
        /\ Cardinality({t \in CoordLabels(back_image) :
                           t.text = TupleText(0, 0)}) = 1
        /\ Cardinality(Unshifted) = 1
        /\ \A b \in Unshifted :
              \E t \in CoordLabels(back_image) :
                  /\ t.text = TupleText(0, 0)
                  /\ t = CoordLabel(b.col, b.row, b.x2, b.y2)
        /\ {t.text : t \in CoordLabels(back_image)} =
              {TupleText(i, j) : i \in AxisLabels(matrix_size_x),
                                 j \in AxisLabels(matrix_size_y)}
        /\ Cardinality({t.text : t \in CoordLabels(back_image)}) =
              matrix_size_x * matrix_size_y
        /\ Cardinality(CoordLabels(back_image)) = matrix_size_x * matrix_size_y

\* Labels -2 .. 1 along four columns and -1 .. 1 along three rows.
C28_Witness ==
    /\ GridDrawn
    /\ matrix_size_x = 4 /\ matrix_size_y = 3
    /\ \E t \in CoordLabels(back_image) : t.text = "(-2, 1)"
    /\ \E t \in CoordLabels(back_image) : t.text = "(1, -1)"
    /\ \E b \in Unshifted : b.col = 2 /\ b.row = 1

\* Both counts are odd and both dimensions of the oriented page even.
OddOnEven ==
    /\ GridDrawn
    /\ matrix_size_x % 2 = 1 /\ matrix_size_y % 2 = 1
    /\ print_width % 2 = 0 /\ print_height % 2 = 0

\* The places of a set of squares.
Places(rects) == {<<r.x2, r.y2>> : r \in rects}

\* C29: with odd counts on even dimensions the rotation by 180 degrees
\* takes the square of back marker (c, r) to the square of back marker
\* (columns - 1 - c, rows - 1 - r); the squares of page 2 are the squares
\* of the unrotated back surface, and the (0, 0) marker of page 2 is where
\* the centre marker of the front page is.
C29_BackGridPointSymmetric ==
    OddOnEven =>
        /\ \A p \in card_list[2].rects :
              \E b \in back_image.rects :
                  /\ b.col = matrix_size_x - 1 - p.col
                  /\ b.row = matrix_size_y - 1 - p.row
                  /\ b.x2 = p.x2 /\ b.y2 = p.y2 /\ b.side = p.side
        /\ Places(card_list[2].rects) = Places(back_image.rects)
        /\ \A p \in card_list[2].rects :
              (p.col = matrix_half_size_x /\ p.row = matrix_half_size_y) =>
                  \E f \in front_image.rects :
                      /\ f.col = matrix_half_size_x
                      /\ f.row = matrix_half_size_y
                      /\ f.x2 = p.x2 /\ f.y2 = p.y2 /\ f.side = p.side

\* Three columns of three markers on a page of 900 x 900 px.
C29_Witness ==
    /\ OddOnEven
    /\ matrix_size_x = 3 /\ matrix_size_y = 3
    /\ \E p \in card_list[2].rects : \E b \in back_image.rects :
          /\ p.col = 0 /\ p.row = 0 /\ b.col = 2 /\ b.row = 2
          /\ p.x2 = b.x2 /\ p.y2 = b.y2
          /\ p.x2 # FrontOf(b).x2

====
